---- MODULE Spec2Model ----
(***************************************************************************)
(* Model of the image2code live preview: the host application (App), its   *)
(* PreviewWindow instances, and the pipeline run() that every iframe       *)
(* document executes (normalize, transpile, load, mount, report).          *)
(***************************************************************************)
EXTENDS Integers, Sequences, FiniteSets, TLC

(***************************************************************************)
(* Bounds of the model.                                                    *)
(***************************************************************************)
\* iframe documents (preview cycles) created in one behaviour
MaxCycles == 3
\* iframe documents created in one behaviour of a single PreviewWindow
MaxPreviewCycles == 2
\* model requests (generateCodeFromImage / refineCode) issued in one behaviour
MaxRequests == 2
\* lines of a source text given to the normalizer
MaxFragments == 2
\* successive applications of the normalizer to one source text
MaxApplications == 2

(***************************************************************************)
(* Source text.  A SourceDocument is a sequence of lexical pieces; the     *)
(* pieces below are the ones the pipeline's pattern match and the HTML     *)
(* parser of the srcDoc distinguish.                                       *)
(***************************************************************************)
IsWs(t) == t \in {" ", "\n"}

\* the regular expression's literal "React" matches any identifier that starts with it
StartsWithReact(t) == t \in {"React", "ReactDOM"}

RECURSIVE SkipWs(_, _)
\* index of the first piece at or after i that is not whitespace (Len(s)+1 if none): \s+
SkipWs(s, i) == IF i <= Len(s) /\ IsWs(s[i]) THEN SkipWs(s, i + 1) ELSE i

\* /import\s+(\*\s+as\s+)?React/ matched with "import" at position i
MatchAt(s, i) ==
    /\ s[i] = "import"
    /\ i + 1 <= Len(s)
    /\ IsWs(s[i + 1])
    /\ LET j == SkipWs(s, i + 1) IN
         /\ j <= Len(s)
         /\ \/ StartsWithReact(s[j])
            \/ /\ s[j] = "*"
               /\ j + 1 <= Len(s)
               /\ IsWs(s[j + 1])
               /\ LET k == SkipWs(s, j + 1) IN
                    /\ k + 1 <= Len(s)
                    /\ s[k] = "as"
                    /\ IsWs(s[k + 1])
                    /\ LET m == SkipWs(s, k + 1) IN
                         m <= Len(s) /\ StartsWithReact(s[m])

\* codeToCompile.match(/import\s+(\*\s+as\s+)?React/)
MatchesReactImport(s) == \E i \in 1..Len(s) : MatchAt(s, i)

\* the canonical import line that is prepended, "import React from 'react';\n"
CanonicalImport == <<"import", " ", "React", " ", "from 'react'", ";", "\n">>

\* a normalizer that prepends without looking at the text
NormalizeAlways(s) == CanonicalImport \o s

\* the normalizer of run(): prepend the canonical import unless the pattern matches
Normalize(s) == IF MatchesReactImport(s) THEN s ELSE CanonicalImport \o s

(***************************************************************************)
(* The srcDoc template embeds the code as a string literal inside the      *)
(* inline module script (const userCode = ${JSON.stringify(code)}).        *)
(* JSON.stringify escapes quotes, backslashes and control characters only, *)
(* so a script end tag in the code ends the script element early and       *)
(* leaves the module script with an unterminated string literal.           *)
(***************************************************************************)
ClosesScript(s) == \E i \in 1..Len(s) : s[i] = "</script>"

(***************************************************************************)
(* Messages and thrown values.                                             *)
(***************************************************************************)
\* new Error("The generated code does not have a default export. ...")
MissingDefaultMessage ==
    <<"The generated code does not have a ", "default export",
      ". Please ensure the component is exported as default.">>

\* Babel's parse error for an unterminated tag: the message quotes the source line
UnterminatedMessage ==
    <<"UserComponent.tsx: Unterminated JSX contents. (1:43)", "\n",
      "> 1 | export default function App(){ return ", "<", "div", ">">>

\* Babel's error for a second declaration of the same import binding
DuplicateMessage == <<"UserComponent.tsx: Identifier 'React' has already been declared.">>

\* the message of an Error thrown by the previewed module itself
BoomMessage == <<"boom">>

ErrorOf(msg) == [kind |-> "Error", message |-> msg]
NullValue == [kind |-> "null", message |-> <<>>]
UndefinedValue == [kind |-> "undefined", message |-> <<>>]

(***************************************************************************)
(* SourceDocuments.  text is the code string; the other fields say what    *)
(* the transpiler and the script engine do with it:                        *)
(*   parses      Babel can parse the text                                  *)
(*   bindsReact  the text itself declares the identifier React             *)
(*   evaluation  what the module's top-level evaluation does               *)
(*   touchesHost the top-level code writes to window.parent's storage      *)
(*   default     the module's default export                               *)
(***************************************************************************)
Doc(text, parses, bindsReact, evaluation, touchesHost, default) ==
    [text |-> text, parses |-> parses, bindsReact |-> bindsReact,
     evaluation |-> evaluation, touchesHost |-> touchesHost, default |-> default]

Documents ==
    [empty |->
        Doc(<<>>, TRUE, FALSE, "ok", FALSE, "absent"),
     hello |->
        Doc(<<"export default", " ", "function App(){ return <div>Hi</div>; }">>,
            TRUE, FALSE, "ok", FALSE, "component"),
     null |->
        Doc(<<"export default", " ", "function App(){ return null; }">>,
            TRUE, FALSE, "ok", FALSE, "nullComponent"),
     unterminated |->
        Doc(<<"export default", " ", "function App(){ return <div>">>,
            FALSE, FALSE, "ok", FALSE, "component"),
     scripttag |->
        Doc(<<"export default", " ", "function App(){ return <script>", "</script>">>,
            FALSE, FALSE, "ok", FALSE, "component"),
     noexport |->
        Doc(<<"function App(){ return <div>Hi</div>; }">>,
            TRUE, FALSE, "ok", FALSE, "absent"),
     throwserror |->
        Doc(<<"throw new Error('boom');", "\n", "export default", " ", "function App(){ return null; }">>,
            TRUE, FALSE, "throwsError", FALSE, "component"),
     throwsnull |->
        Doc(<<"throw null;", "\n", "export default", " ", "function App(){ return null; }">>,
            TRUE, FALSE, "throwsNull", FALSE, "component"),
     throwsundefined |->
        Doc(<<"throw undefined;", "\n", "export default", " ", "function App(){ return null; }">>,
            TRUE, FALSE, "throwsUndefined", FALSE, "component"),
     hostile |->
        Doc(<<"window.parent.localStorage.setItem('k','v');", "\n",
              "[...window.parent.document.querySelectorAll('button')]",
              ".find(b => b.textContent.includes('RESET'))?.click();", "\n",
              "export default", " ", "function App(){ return null; }">>,
            TRUE, FALSE, "ok", TRUE, "nullComponent"),
     throwing |->
        Doc(<<"export default", " ", "function App(){ throw new Error('boom'); }">>,
            TRUE, FALSE, "ok", FALSE, "throwingComponent"),
     falsy |->
        Doc(<<"export default", " ", "0;">>,
            TRUE, FALSE, "ok", FALSE, "falsy"),
     hang |->
        Doc(<<"await new Promise(() => {});", "\n",
              "export default", " ", "function App(){ return null; }">>,
            TRUE, FALSE, "never", FALSE, "component")]

DocIds == DOMAIN Documents

\* the codes the model service can answer with (response.text after the fence cleanup)
ResponseDocs == {"hello", "unterminated", "hostile"}

(***************************************************************************)
(* Babel.transform(codeToCompile, ...): a parse error for text that does   *)
(* not parse or that declares React twice, the compiled code otherwise.    *)
(***************************************************************************)
Transform(d, codeToCompile) ==
    LET doc == Documents[d]
        prepended == codeToCompile # doc.text
    IN  IF ~doc.parses THEN [ok |-> FALSE, error |-> ErrorOf(UnterminatedMessage)]
        ELSE IF prepended /\ doc.bindsReact
             THEN [ok |-> FALSE, error |-> ErrorOf(DuplicateMessage)]
             ELSE [ok |-> TRUE, error |-> NullValue]

(***************************************************************************)
(* State.                                                                  *)
(*   status, generatedCode, uploadedImage, refinementPrompt, isFullscreen  *)
(*       the useState cells of App (uploadedImage: TRUE when not null)     *)
(*   readers    FileReader loads of handleFileSelect still pending         *)
(*   requests   model requests in flight, each the awaiting handler        *)
(*   issued     number of model requests issued so far                     *)
(*   windows    the two PreviewWindow positions of App's render tree       *)
(*   cycles     every iframe document created so far, in creation order    *)
(*   hostStorage  the host origin's storage                                *)
(*   alerts     number of alert() dialogs App has raised                   *)
(*   source     the text under study as input of the normalizer            *)
(*   outputs    what successive applications of the normalizer returned    *)
(***************************************************************************)
VARIABLES status, generatedCode, uploadedImage, refinementPrompt, isFullscreen,
          readers, requests, issued, windows, cycles, hostStorage, alerts, source,
          outputs

vars == <<status, generatedCode, uploadedImage, refinementPrompt, isFullscreen,
          readers, requests, issued, windows, cycles, hostStorage, alerts, source,
          outputs>>

\* enum AppStatus
AppStatus == {"IDLE", "ANALYZING", "GENERATING", "COMPLETED", "ERROR"}

\* values typed into the refinement input: nothing, blanks only, an instruction
Prompts == {"", " ", "make it blue"}

\* prompt.trim()
Trim(p) == IF p = " " THEN "" ELSE p

WindowIds == {"main", "fullscreen"}

\* the sandbox attribute of the iframe
SandboxFlags == {"allow-scripts", "allow-same-origin"}

Unmounted == [mounted |-> FALSE, code |-> "empty", document |-> 0]

\* the document a new srcDoc creates: <div id="root"></div>, run() not yet started
NewDocument(w, d) ==
    [doc |-> d, window |-> w, pc |-> "Idle", url |-> "none",
     mountNode |-> "empty", panel |-> <<>>, discarded |-> FALSE, successor |-> 0,
     unhandled |-> FALSE, trace |-> <<"Idle">>]

\* the body that the catch block writes: the panel with ${err.message} interpolated
DiagnosticPanel(message) == <<"<h1>Preview Error</h1>", "<pre>">> \o message \o <<"</pre>">>

\* a document that is unloaded and whose scripts can take no further step
Collected ==
    [doc |-> "empty", window |-> "main", pc |-> "Collected", url |-> "none",
     mountNode |-> "absent", panel |-> <<>>, discarded |-> TRUE, successor |-> 0,
     unhandled |-> FALSE, trace |-> <<>>]

\* the unload that leaves the document's blob URLs in the store
DiscardKeepingUrls(cs, c, next) ==
    IF c = 0 THEN cs
    ELSE [cs EXCEPT ![c].discarded = TRUE, ![c].successor = next]

\* the iframe leaves its document c (for the document next, or for none when the
\* iframe is removed: next = 0): the document is unloaded, and with it the blob
\* URLs that its scripts created; only a continuation that awaits the import can
\* still run in it
Discard(cs, c, next) ==
    IF c = 0 THEN cs
    ELSE [cs EXCEPT ![c] =
            IF @.pc = "Loading"
            THEN [@ EXCEPT !.discarded = TRUE, !.successor = next, !.url = "revoked"]
            ELSE Collected]

\* App's JSX: which PreviewWindow elements the render tree holds
IsRendered(w, st, fs) ==
    IF w = "main" THEN st \in {"COMPLETED", "GENERATING"} ELSE fs

\* React's commit for one PreviewWindow position (shown: the render tree holds the
\* element), with useEffect([code]) and the iframe's navigation to the new srcDoc
Commit(w, shown, code, state) ==
    LET old == state.windows[w] IN
    IF ~shown
    THEN [windows |-> [state.windows EXCEPT ![w] = Unmounted],
          cycles |-> Discard(state.cycles, old.document, 0)]
    ELSE IF old.mounted /\ old.code = code
         THEN state
         ELSE [windows |-> [state.windows EXCEPT
                               ![w] = [mounted |-> TRUE, code |-> code,
                                       document |-> Len(state.cycles) + 1]],
               cycles |-> Append(Discard(state.cycles, old.document, Len(state.cycles) + 1),
                                 NewDocument(w, code))]

\* the commit of App after a state update
Reconcile(st, code, fs) ==
    Commit("fullscreen", IsRendered("fullscreen", st, fs), code,
           Commit("main", IsRendered("main", st, fs), code,
                  [windows |-> windows, cycles |-> cycles]))

\* the state update and the commit it causes
Update(st, code, fs) ==
    LET next == Reconcile(st, code, fs) IN
    /\ Len(next.cycles) <= MaxCycles
    /\ status' = st
    /\ generatedCode' = code
    /\ isFullscreen' = fs
    /\ windows' = next.windows
    /\ cycles' = next.cycles

\* App before any event, no PreviewWindow mounted
HostInit ==
    /\ status = "IDLE"
    /\ generatedCode = "empty"
    /\ uploadedImage = FALSE
    /\ refinementPrompt = ""
    /\ isFullscreen = FALSE
    /\ readers = 0
    /\ requests = {}
    /\ issued = 0
    /\ windows = [w \in WindowIds |-> Unmounted]
    /\ cycles = <<>>
    /\ hostStorage = "clean"
    /\ alerts = 0

Init ==
    /\ HostInit
    /\ source = <<>>
    /\ outputs = <<>>

(***************************************************************************)
(* The host application.                                                   *)
(***************************************************************************)
\* UploadZone is shown while uploadedImage is null
HandleFileSelect ==
    /\ ~uploadedImage
    /\ issued < MaxRequests
    /\ readers' = readers + 1
    /\ issued' = issued + 1
    /\ requests' = requests \cup {[id |-> issued + 1, kind |-> "generate"]}
    /\ Update("ANALYZING", generatedCode, isFullscreen)
    /\ UNCHANGED <<source, outputs, alerts, uploadedImage, refinementPrompt, hostStorage>>

\* reader.onload
ReaderLoaded ==
    /\ readers > 0
    /\ readers' = readers - 1
    /\ uploadedImage' = TRUE
    /\ UNCHANGED <<source, outputs, alerts, status, generatedCode, refinementPrompt, isFullscreen,
                   requests, issued, windows, cycles, hostStorage>>

\* generateCodeFromImage resolved
GenerateResolved(r, d) ==
    /\ r \in requests /\ r.kind = "generate"
    /\ requests' = requests \ {r}
    /\ Update("COMPLETED", d, isFullscreen)
    /\ UNCHANGED <<source, outputs, alerts, uploadedImage, refinementPrompt, readers, issued, hostStorage>>

\* generateCodeFromImage rejected
GenerateRejected(r) ==
    /\ r \in requests /\ r.kind = "generate"
    /\ requests' = requests \ {r}
    /\ Update("ERROR", generatedCode, isFullscreen)
    /\ UNCHANGED <<source, outputs, alerts, uploadedImage, refinementPrompt, readers, issued, hostStorage>>

\* onChange of the refinement input, shown while status is COMPLETED
TypePrompt(p) ==
    /\ status = "COMPLETED"
    /\ p # refinementPrompt
    /\ refinementPrompt' = p
    /\ UNCHANGED <<source, outputs, alerts, status, generatedCode, uploadedImage, isFullscreen,
                   readers, requests, issued, windows, cycles, hostStorage>>

\* Enter in the refinement input, or the Update button
HandleRefine ==
    /\ status = "COMPLETED"
    /\ IF Trim(refinementPrompt) = ""
       THEN UNCHANGED vars
       ELSE /\ issued < MaxRequests
            /\ issued' = issued + 1
            /\ requests' = requests \cup {[id |-> issued + 1, kind |-> "refine"]}
            /\ Update("GENERATING", generatedCode, isFullscreen)
            /\ UNCHANGED <<source, outputs, alerts, uploadedImage, refinementPrompt, readers, hostStorage>>

\* refineCode resolved
RefineResolved(r, d) ==
    /\ r \in requests /\ r.kind = "refine"
    /\ requests' = requests \ {r}
    /\ refinementPrompt' = ""
    /\ Update("COMPLETED", d, isFullscreen)
    /\ UNCHANGED <<source, outputs, alerts, uploadedImage, readers, issued, hostStorage>>

\* a failure handler that also clears the prompt, as the success path does
RefineRejectedClearing(r) ==
    /\ r \in requests /\ r.kind = "refine"
    /\ requests' = requests \ {r}
    /\ refinementPrompt' = ""
    /\ alerts' = alerts + 1
    /\ Update("COMPLETED", generatedCode, isFullscreen)
    /\ UNCHANGED <<source, outputs, uploadedImage, readers, issued, hostStorage>>

\* refineCode rejected: setStatus(COMPLETED) and alert("Failed to update code...")
RefineRejected(r) ==
    /\ r \in requests /\ r.kind = "refine"
    /\ requests' = requests \ {r}
    /\ alerts' = alerts + 1
    /\ Update("COMPLETED", generatedCode, isFullscreen)
    /\ UNCHANGED <<source, outputs, uploadedImage, refinementPrompt, readers, issued, hostStorage>>

\* the RESET button, shown while status is not IDLE
HandleReset ==
    /\ status # "IDLE"
    /\ uploadedImage' = FALSE
    /\ refinementPrompt' = ""
    /\ Update("IDLE", "empty", isFullscreen)
    /\ UNCHANGED <<source, outputs, alerts, readers, requests, issued, hostStorage>>

\* the fullscreen button, shown while status is COMPLETED
OpenFullscreen ==
    /\ status = "COMPLETED"
    /\ ~isFullscreen
    /\ Update(status, generatedCode, TRUE)
    /\ UNCHANGED <<source, outputs, alerts, uploadedImage, refinementPrompt, readers, requests, issued, hostStorage>>

\* the overlay's close button, or the Escape key
CloseFullscreen ==
    /\ isFullscreen
    /\ Update(status, generatedCode, FALSE)
    /\ UNCHANGED <<source, outputs, alerts, uploadedImage, refinementPrompt, readers, requests, issued, hostStorage>>

(***************************************************************************)
(* The pipeline inside one iframe document.                                *)
(***************************************************************************)
\* SecurityError of a cross-origin access to window.parent
SecurityMessage == <<"Blocked a frame from accessing a cross-origin frame.">>

\* a catch block that adds the panel to the body and keeps what the body holds
CatchKeepingBody(cycle, err) ==
    [cycle EXCEPT !.pc = "Failed", !.panel = DiagnosticPanel(err.message),
                  !.trace = Append(@, "Failed")]

\* catch (err) { ... ${err.message} ... }: reading .message of null or undefined
\* throws inside the catch block, and run()'s promise rejects with nobody awaiting it
Catch(cycle, err) ==
    IF err.kind \in {"null", "undefined"}
    THEN [cycle EXCEPT !.pc = "Crashed", !.unhandled = TRUE,
                       !.trace = Append(@, "Crashed")]
    ELSE [cycle EXCEPT !.pc = "Failed", !.mountNode = "absent",
                       !.panel = DiagnosticPanel(err.message),
                       !.trace = Append(@, "Failed")]

\* the mount without the check of the default export
MountUnchecked(cycle) ==
    [cycle EXCEPT !.pc = "Mounting", !.mountNode = "root", !.trace = Append(@, "Mounting")]

\* the mount with the check of the default export inverted
MountInverted(cycle) ==
    IF Documents[cycle.doc].default \in {"absent", "falsy"}
    THEN [cycle EXCEPT !.pc = "Mounting", !.mountNode = "root",
                       !.trace = Append(@, "Mounting")]
    ELSE [cycle EXCEPT !.pc = "Failed", !.mountNode = "absent",
                       !.panel = <<"<h1>Preview Error</h1>", "<pre>">> \o MissingDefaultMessage
                                 \o <<"</pre>">>,
                       !.trace = @ \o <<"Mounting", "Failed">>]

\* const App = module.default; if (!App) throw ...; createRoot(...); root.render(...)
Mount(cycle) ==
    IF Documents[cycle.doc].default \in {"absent", "falsy"}
    THEN Catch([cycle EXCEPT !.trace = Append(@, "Mounting")], ErrorOf(MissingDefaultMessage))
    ELSE [cycle EXCEPT !.pc = "Mounting", !.mountNode = "root",
                       !.trace = Append(@, "Mounting")]

\* what the module's top-level evaluation throws, if anything
Evaluation(d) ==
    LET doc == Documents[d] IN
    IF doc.touchesHost /\ "allow-same-origin" \notin SandboxFlags
    THEN [threw |-> TRUE, value |-> ErrorOf(SecurityMessage)]
    ELSE CASE doc.evaluation = "throwsError" -> [threw |-> TRUE, value |-> ErrorOf(BoomMessage)]
           [] doc.evaluation = "throwsNull" -> [threw |-> TRUE, value |-> NullValue]
           [] doc.evaluation = "throwsUndefined" -> [threw |-> TRUE, value |-> UndefinedValue]
           [] OTHER -> [threw |-> FALSE, value |-> NullValue]

\* the document's module script starts: run() up to the await of import(url)
RunStart(c) ==
    /\ c \in 1..Len(cycles)
    /\ cycles[c].pc = "Idle"
    /\ ~cycles[c].discarded
    /\ "allow-scripts" \in SandboxFlags
    /\ LET d == cycles[c].doc
           codeToCompile == Normalize(Documents[d].text)
           compiledResult == Transform(d, codeToCompile)
       IN  cycles' = [cycles EXCEPT ![c] =
              IF ClosesScript(Documents[d].text)
              THEN [@ EXCEPT !.pc = "Unparsed", !.unhandled = TRUE]
              ELSE IF ~compiledResult.ok
                   THEN Catch([@ EXCEPT !.trace = @ \o <<"Normalizing", "Transpiling">>],
                              compiledResult.error)
                   ELSE [@ EXCEPT !.pc = "Loading", !.url = "live",
                                  !.trace = @ \o <<"Normalizing", "Transpiling", "Loading">>]]
    /\ UNCHANGED <<source, outputs, alerts, status, generatedCode, uploadedImage, refinementPrompt, isFullscreen,
                   readers, requests, issued, windows, hostStorage>>

\* an unloaded document whose continuation has ended: nothing can observe its
\* content any more, and no further task runs in it
Ended(cycle) ==
    IF cycle.discarded
    THEN [Collected EXCEPT !.pc = "Ended", !.successor = cycle.successor]
    ELSE cycle

\* the document the iframe currently shows (iframeRef.current.contentDocument)
FrameDocument(c) == windows[cycles[c].window].document

\* the document that `document` names in the module script of cycle c: the global
\* of the script's own realm
OwnDocument(c) == c

\* a watchdog that ends every import
SettlesByTimeout(d) == TRUE

\* the import of the module of code d settles: its top-level evaluation ends
Settles(d) == Documents[d].evaluation # "never"

\* import(url) settles and run() continues to its end.  The module's top-level
\* code runs with the host's origin: through window.parent it writes the host's
\* storage and clicks the host's RESET button (rendered while status is not
\* IDLE), whose handler runs before the import settles.  A discarded document
\* has no window.parent.
ImportSettled(c) ==
    /\ c \in 1..Len(cycles)
    /\ cycles[c].pc = "Loading"
    /\ Settles(cycles[c].doc)
    /\ OwnDocument(c) \in 1..Len(cycles)
    /\ LET d == cycles[c].doc
           module == Evaluation(d)
           end == IF module.threw THEN Catch(cycles[c], module.value) ELSE Mount(cycles[c])
           reaches == /\ Documents[d].touchesHost
                      /\ "allow-same-origin" \in SandboxFlags
                      /\ ~cycles[c].discarded
           clicks == reaches /\ status # "IDLE"
           host == IF clicks THEN Reconcile("IDLE", "empty", isFullscreen)
                   ELSE [windows |-> windows, cycles |-> cycles]
       IN  /\ Len(host.cycles) <= MaxCycles
           /\ hostStorage' = IF reaches THEN "tampered" ELSE hostStorage
           /\ status' = IF clicks THEN "IDLE" ELSE status
           /\ generatedCode' = IF clicks THEN "empty" ELSE generatedCode
           /\ uploadedImage' = IF clicks THEN FALSE ELSE uploadedImage
           /\ refinementPrompt' = IF clicks THEN "" ELSE refinementPrompt
           /\ windows' = host.windows
           /\ cycles' = [host.cycles EXCEPT ![c].pc = end.pc,
                                            ![c].unhandled = end.unhandled,
                                            ![c].trace = end.trace,
                                            ![OwnDocument(c)].mountNode = end.mountNode,
                                            ![OwnDocument(c)].panel = end.panel,
                                            ![c] = Ended(@)]
    /\ UNCHANGED <<source, outputs, alerts, isFullscreen, readers, requests, issued>>

\* React performs the render that root.render scheduled
ReactRender(c) ==
    /\ c \in 1..Len(cycles)
    /\ cycles[c].pc = "Mounting"
    /\ cycles' = [cycles EXCEPT ![c] =
          IF Documents[@.doc].default = "throwingComponent"
          THEN [@ EXCEPT !.pc = "Crashed", !.mountNode = "empty", !.unhandled = TRUE,
                         !.trace = Append(@, "Crashed")]
          ELSE [@ EXCEPT !.pc = "Rendered", !.mountNode = "rendered",
                         !.trace = Append(@, "Rendered")]]
    /\ UNCHANGED <<source, outputs, alerts, status, generatedCode, uploadedImage, refinementPrompt, isFullscreen,
                   readers, requests, issued, windows, hostStorage>>

Next ==
    \/ HandleFileSelect
    \/ ReaderLoaded
    \/ \E r \in requests, d \in ResponseDocs : GenerateResolved(r, d)
    \/ \E r \in requests : GenerateRejected(r)
    \/ \E p \in Prompts : TypePrompt(p)
    \/ HandleRefine
    \/ \E r \in requests, d \in ResponseDocs : RefineResolved(r, d)
    \/ \E r \in requests : RefineRejected(r)
    \/ HandleReset
    \/ OpenFullscreen
    \/ CloseFullscreen
    \/ \E c \in 1..MaxCycles : RunStart(c)
    \/ \E c \in 1..MaxCycles : ImportSettled(c)
    \/ \E c \in 1..MaxCycles : ReactRender(c)

\* App with its two PreviewWindow positions
Spec == Init /\ [][Next]_vars

(***************************************************************************)
(* One PreviewWindow under an arbitrary parent: the parent renders it with *)
(* a code prop, renders it again with another one, or removes it.          *)
(***************************************************************************)
\* <PreviewWindow code={d} />
ParentRenders(d) ==
    LET next == Commit("main", TRUE, d, [windows |-> windows, cycles |-> cycles]) IN
    /\ Len(next.cycles) <= MaxPreviewCycles
    /\ windows' = next.windows
    /\ cycles' = next.cycles
    /\ UNCHANGED <<source, outputs, alerts, status, generatedCode, uploadedImage, refinementPrompt, isFullscreen,
                   readers, requests, issued, hostStorage>>

\* the parent's render tree no longer holds the PreviewWindow
ParentRemoves ==
    LET next == Commit("main", FALSE, "empty", [windows |-> windows, cycles |-> cycles]) IN
    /\ windows["main"].mounted
    /\ windows' = next.windows
    /\ cycles' = next.cycles
    /\ UNCHANGED <<source, outputs, alerts, status, generatedCode, uploadedImage, refinementPrompt, isFullscreen,
                   readers, requests, issued, hostStorage>>

PreviewNext ==
    \/ \E d \in DocIds : ParentRenders(d)
    \/ ParentRemoves
    \/ \E c \in 1..MaxPreviewCycles : RunStart(c)
    \/ \E c \in 1..MaxPreviewCycles : ImportSettled(c)
    \/ \E c \in 1..MaxPreviewCycles : ReactRender(c)

PreviewSpec == Init /\ [][PreviewNext]_vars

(***************************************************************************)
(* Fairness: a loaded document runs its module script, an import whose     *)
(* module evaluation terminates settles, and React performs a scheduled    *)
(* render.                                                                 *)
(***************************************************************************)
PipelineFairness ==
    \A c \in 1..MaxPreviewCycles :
        /\ WF_vars(RunStart(c))
        /\ WF_vars(ImportSettled(c))
        /\ WF_vars(ReactRender(c))

PreviewFairSpec == PreviewSpec /\ PipelineFairness

\* a model request in flight settles: the promise of generateCodeFromImage or
\* refineCode resolves or rejects and the awaiting handler continues
Settle ==
    \E r \in requests :
        \/ GenerateRejected(r)
        \/ RefineRejected(r)
        \/ \E d \in ResponseDocs : GenerateResolved(r, d) \/ RefineResolved(r, d)

\* App under the condition that requests in flight settle
HostFairSpec == Spec /\ WF_vars(Settle)

(***************************************************************************)
(* The normalizer on its own: a source text made of whole lines, and the   *)
(* normalizer applied to it and again to what it returned.                 *)
(***************************************************************************)
\* the lines a source text is made of
Fragments ==
    {<<"import", " ", "React", " ", "from 'react'", ";", "\n">>,
     <<"import", " ", "*", " ", "as", " ", "React", " ", "from 'react'", ";", "\n">>,
     <<"import", "*", " ", "as", " ", "React", " ", "from 'react'", ";", "\n">>,
     <<"import", "{default as React}", "from 'react'", ";", "\n">>,
     <<"import", " ", "{ useState }", " ", "from 'react'", ";", "\n">>,
     <<"import", " ", "ReactDOM", " ", "from 'react-dom'", ";", "\n">>,
     <<"//", " ", "import", " ", "React", " ", "is not needed here", "\n">>,
     <<"export default", " ", "function App(){ return null; }", "\n">>}

RECURSIVE Lines(_, _)
\* the text of the first n lines of f
Lines(f, n) == IF n = 0 THEN <<>> ELSE Lines(f, n - 1) \o f[n]

\* the source texts of at most MaxFragments lines
Sources ==
    UNION {{Lines(f, n) : f \in [1..n -> Fragments]} : n \in 0..MaxFragments}

\* piece i of s stands in a line comment
InComment(s, i) ==
    \E c \in 1..(i - 1) : s[c] = "//" /\ \A k \in c..i : s[k] # "\n"

\* an import declaration that starts at piece i of s declares the identifier
\* React: import React, import * as React, import {default as React}
DeclaresReactAt(s, i) ==
    /\ s[i] = "import"
    /\ ~InComment(s, i)
    /\ LET j == SkipWs(s, i + 1) IN
         /\ j <= Len(s)
         /\ \/ s[j] = "React" /\ j > i + 1
            \/ s[j] = "{default as React}"
            \/ /\ s[j] = "*"
               /\ LET k == SkipWs(s, j + 1) IN
                    /\ k + 1 <= Len(s)
                    /\ s[k] = "as"
                    /\ IsWs(s[k + 1])
                    /\ LET m == SkipWs(s, k + 1) IN m <= Len(s) /\ s[m] = "React"

\* the number of declarations of React in the module s; Babel rejects a module
\* with more than one
ReactBindings(s) == Cardinality({i \in 1..Len(s) : DeclaresReactAt(s, i)})

NormalizerInit ==
    /\ HostInit
    /\ source \in Sources
    /\ outputs = <<>>

\* codeToCompile = userCode, then the check and the prepend of run()
ApplyNormalizer ==
    /\ Len(outputs) < MaxApplications
    /\ outputs' = Append(outputs,
                         Normalize(IF outputs = <<>> THEN source ELSE outputs[Len(outputs)]))
    /\ UNCHANGED <<status, generatedCode, uploadedImage, refinementPrompt, isFullscreen,
                   readers, requests, issued, windows, cycles, hostStorage, alerts, source>>

NormalizerNext == ApplyNormalizer

NormalizerSpec == NormalizerInit /\ [][NormalizerNext]_vars

(***************************************************************************)
(* Properties.                                                             *)
(***************************************************************************)
CycleIds == 1..Len(cycles)

\* s occurs in t as a contiguous piece
Contains(t, s) ==
    \E i \in 0..(Len(t) - Len(s)) : \A k \in 1..Len(s) : t[i + k] = s[k]

\* the document shown by a mounted PreviewWindow
Shown(c) == \E w \in WindowIds : windows[w].mounted /\ windows[w].document = c

\* the panel that the pipeline writes for code d, <<>> when it writes none
PanelFor(d) ==
    LET compiled == Transform(d, Normalize(Documents[d].text))
        module == Evaluation(d)
    IN  IF ClosesScript(Documents[d].text) THEN <<>>
        ELSE IF ~compiled.ok THEN DiagnosticPanel(compiled.error.message)
        ELSE IF module.threw
             THEN IF module.value.kind = "Error"
                  THEN DiagnosticPanel(module.value.message) ELSE <<>>
             ELSE IF Documents[d].default \in {"absent", "falsy"}
                  THEN DiagnosticPanel(MissingDefaultMessage) ELSE <<>>

\* C1 (supersession): the document a PreviewWindow shows is the one created for
\* its current code, and what it shows (a mounted root or a panel) is the
\* outcome of that code only; the continuation of a superseded cycle never
\* mounts into it or writes a panel into it.
C1_Supersession ==
    \A w \in WindowIds :
        windows[w].mounted =>
            LET c == windows[w].document IN
            /\ c \in CycleIds
            /\ ~cycles[c].discarded
            /\ cycles[c].doc = windows[w].code
            /\ cycles[c].panel \in {<<>>, PanelFor(cycles[c].doc)}
            /\ cycles[c].mountNode \in {"root", "rendered"} => PanelFor(cycles[c].doc) = <<>>
            /\ cycles[c].pc \in {"Idle", "Loading"} =>
                  cycles[c].panel = <<>> /\ cycles[c].mountNode = "empty"

\* C1 witness: cycle a was superseded by b while it awaited its import, a's
\* continuation has since run to its end, and b shows its own output
C1_Witness ==
    \E a \in CycleIds, b \in CycleIds :
        /\ cycles[a].pc = "Ended"
        /\ cycles[a].successor = b
        /\ windows["main"].mounted /\ windows["main"].document = b
        /\ cycles[b].pc = "Rendered"

\* C2 (failure containment): every failure raised in run() (transpile, locator,
\* import, mount) ends the cycle in Failed with a panel and leaves no unhandled
\* rejection; a document whose module script never started run() is not counted.
C2_FailureContained ==
    \A c \in CycleIds :
        cycles[c].pc \notin {"Unparsed", "Collected", "Ended"} =>
            /\ ~cycles[c].unhandled
            /\ cycles[c].pc # "Crashed"
            /\ cycles[c].pc = "Failed" => cycles[c].panel # <<>>

\* C3 (syntax failure): a cycle for code that does not parse ends in Failed with
\* a panel that contains the parser's message; it creates no locator, starts no
\* import and mounts nothing.
C3_SyntaxFailure ==
    \A c \in CycleIds :
        (cycles[c].pc \notin {"Collected", "Ended"} /\ ~Documents[cycles[c].doc].parses) =>
            /\ cycles[c].pc \in {"Idle", "Failed"}
            /\ cycles[c].url = "none"
            /\ cycles[c].mountNode \notin {"root", "rendered"}
            /\ cycles[c].pc = "Failed" => Contains(cycles[c].panel, UnterminatedMessage)

\* code that transpiles and loads and whose module has no default export
LoadsWithoutDefault(d) ==
    /\ ~ClosesScript(Documents[d].text)
    /\ Transform(d, Normalize(Documents[d].text)).ok
    /\ ~Evaluation(d).threw
    /\ Documents[d].default = "absent"

\* C4 (missing default export): a cycle for code that transpiles and loads but has
\* no default export is never mounted or rendered and never crashes; once its
\* import has settled it is Failed with a panel that contains "default export".
C4_MissingDefault ==
    \A c \in CycleIds :
        (cycles[c].pc \notin {"Collected", "Ended"} /\ LoadsWithoutDefault(cycles[c].doc)) =>
            /\ cycles[c].pc \in {"Idle", "Loading", "Failed"}
            /\ cycles[c].mountNode \notin {"root", "rendered"}
            /\ ~cycles[c].unhandled
            /\ cycles[c].pc = "Failed" =>
                  /\ Contains(cycles[c].panel, <<"default export">>)
                  /\ cycles[c].mountNode = "absent"

\* C4 witness: the cycle of the code without an export has ended in Failed
C4_Witness ==
    \E c \in CycleIds :
        /\ cycles[c].doc = "noexport"
        /\ cycles[c].pc = "Failed"
        /\ Shown(c)

\* valid code with a default-exported component and no import of the runtime
ValidComponent(d) ==
    /\ Documents[d].parses
    /\ ~MatchesReactImport(Documents[d].text)
    /\ ~Documents[d].bindsReact
    /\ Documents[d].evaluation = "ok"
    /\ Documents[d].default \in {"component", "nullComponent"}

\* C5 (successful mount): a cycle for valid code with a default-exported
\* component and no runtime import whose import has been started eventually is
\* Rendered, with the component in the mount node and no panel, unless it is
\* superseded.
C5_ValidRenders ==
    \A c \in 1..MaxPreviewCycles :
        (c \in CycleIds /\ cycles[c].pc = "Loading" /\ ValidComponent(cycles[c].doc))
        ~> (/\ c \in CycleIds
            /\ \/ cycles[c].discarded
               \/ /\ cycles[c].pc = "Rendered"
                  /\ cycles[c].mountNode = "rendered"
                  /\ cycles[c].panel = <<>>)

\* C5 witness: the component that renders null is Rendered, with no panel
C5_Witness ==
    \E c \in CycleIds :
        /\ cycles[c].doc = "null"
        /\ Shown(c)
        /\ cycles[c].pc = "Rendered"
        /\ cycles[c].mountNode = "rendered"
        /\ cycles[c].panel = <<>>

\* C6 (idempotence of resubmission): a refinement that resolves with the code
\* already shown starts a new cycle with a fresh document.
C6_ResubmissionStartsCycle ==
    [][(/\ status = "GENERATING"
        /\ \E r \in requests : r.kind = "refine" /\ r \notin requests'
        /\ refinementPrompt # "" /\ refinementPrompt' = ""
        /\ status' = "COMPLETED"
        /\ generatedCode' = generatedCode)
       => windows'["main"].document > Len(cycles)]_vars

\* the locators created by URL.createObjectURL and not released
LiveLocators == {c \in CycleIds : cycles[c].url = "live"}

\* C7 (resource hygiene): the number of live locators never exceeds the number
\* of PreviewWindow positions, however many cycles have run.
C7_LocatorsBounded == Cardinality(LiveLocators) <= Cardinality(WindowIds)

\* C7 witness: more cycles have run than locators can be live, and as many are
\* live as the bound allows
C7_Witness ==
    /\ Len(cycles) > Cardinality(WindowIds)
    /\ Cardinality(LiveLocators) = Cardinality(WindowIds)

\* C8 (locator release): no cycle is Rendered or Failed while its locator is live.
C8_LocatorReleased ==
    \A c \in CycleIds : cycles[c].pc \in {"Rendered", "Failed"} => cycles[c].url # "live"

\* C9 (isolation): previewed code never changes the host origin's storage.
C9_HostIsolated == hostStorage = "clean"

\* C10 (one active cycle): at most one document holds a cycle's artifacts.
C10_OneActiveCycle ==
    Cardinality({c \in CycleIds : ~cycles[c].discarded /\ cycles[c].pc # "Collected"}) <= 1

\* the stages of a cycle in the order run() goes through them
Stages == <<"Idle", "Normalizing", "Transpiling", "Loading", "Mounting">>

\* p is an initial piece of s
IsPrefix(p, s) == Len(p) <= Len(s) /\ \A k \in 1..Len(p) : p[k] = s[k]

\* the stages a cycle has entered, without the state it ended in
StagesEntered(c) ==
    LET t == cycles[c].trace IN
    IF t[Len(t)] \in {Stages[k] : k \in 1..Len(Stages)} THEN t ELSE SubSeq(t, 1, Len(t) - 1)

\* C11 (cycle state machine): the stages of every cycle are entered in the
\* order Idle, Normalizing, Transpiling, Loading, Mounting, none skipped or
\* repeated; Mounting is entered only after the import completed successfully;
\* a cycle that has left its stages is in exactly one of Rendered or Failed,
\* Rendered only after all stages, and nothing of the cycle follows Failed.
C11_CycleStateMachine ==
    \A c \in CycleIds :
        cycles[c].trace # <<>> =>
            LET t == cycles[c].trace
                last == t[Len(t)]
            IN  /\ IsPrefix(StagesEntered(c), Stages)
                /\ last \in {Stages[k] : k \in 1..Len(Stages)} \cup {"Rendered", "Failed"}
                /\ last = "Rendered" => StagesEntered(c) = Stages
                /\ (\E k \in 1..Len(t) : t[k] = "Mounting") =>
                      ~Evaluation(cycles[c].doc).threw

\* C12 (entry-component failure): once React has invoked a default-exported
\* component that throws while rendering, the cycle is Failed and its document
\* shows the diagnostic panel with the thrown message.
C12_EntryComponentFailure ==
    \A c \in CycleIds :
        (/\ cycles[c].trace # <<>>
         /\ Documents[cycles[c].doc].default = "throwingComponent"
         /\ cycles[c].pc \notin {"Idle", "Loading", "Mounting"})
        => /\ cycles[c].pc = "Failed"
           /\ cycles[c].panel = DiagnosticPanel(BoomMessage)

\* a step of some cycle's pipeline (the host's own steps only unload documents)
PipelineStep ==
    \E c \in CycleIds : cycles'[c].pc # cycles[c].pc /\ cycles'[c].pc # "Collected"

\* C13 (host unaffected by the preview outcome): no step of a cycle's pipeline
\* changes status, generatedCode, uploadedImage or refinementPrompt; and when
\* the main PreviewWindow shows a Failed cycle and the host submits another
\* code, a fresh document starts at Idle with nothing of the failed one.
C13_HostUnaffected ==
    [][/\ PipelineStep =>
            UNCHANGED <<status, generatedCode, uploadedImage, refinementPrompt>>
       /\ (/\ windows["main"].mounted
           /\ cycles[windows["main"].document].pc = "Failed"
           /\ windows'["main"].mounted
           /\ generatedCode' # generatedCode)
          => LET n == windows'["main"].document IN
             /\ n > Len(cycles)
             /\ cycles'[n] = NewDocument("main", generatedCode')]_vars

\* the pieces that the HTML parser reads as the name of a tag after "<"
TagNames == {"div", "/div", "span", "/span"}

\* the character references the HTML parser decodes
CharacterReferences == [amp |-> "&", lt |-> "<", gt |-> ">"]

RECURSIVE AfterTag(_)
\* the markup that follows the tag opened at the head of s; nothing when the
\* tag is never closed
AfterTag(s) ==
    IF s = <<>> THEN <<>>
    ELSE IF Head(s) = ">" THEN Tail(s) ELSE AfterTag(Tail(s))

RECURSIVE TextContent(_)
\* the text a browser displays for markup assigned through innerHTML: "<"
\* followed by a tag name opens a tag, which is not text; "&" followed by the
\* name of a character reference and ";" is displayed as the character
TextContent(s) ==
    IF s = <<>> THEN <<>>
    ELSE IF Len(s) >= 2 /\ s[1] = "<" /\ s[2] \in TagNames
         THEN TextContent(AfterTag(s))
    ELSE IF Len(s) >= 3 /\ s[1] = "&" /\ s[2] \in DOMAIN CharacterReferences /\ s[3] = ";"
         THEN <<CharacterReferences[s[2]]>> \o TextContent(SubSeq(s, 4, Len(s)))
    ELSE <<Head(s)>> \o TextContent(Tail(s))

\* the markup between <pre> and </pre> of a panel: ${err.message} as interpolated
Interpolated(panel) == SubSeq(panel, 3, Len(panel) - 1)

\* C14 (verbatim diagnostic): the text displayed in the panel of a Failed cycle
\* is the message of the failure, piece for piece, also when the message holds
\* "<", ">" or "&"; and a panel stands under its "Preview Error" heading in a
\* body that holds no mount node.
C14_VerbatimDiagnostic ==
    \A c \in CycleIds :
        cycles[c].pc = "Failed" =>
            /\ cycles[c].panel = PanelFor(cycles[c].doc)
            /\ TextContent(Interpolated(cycles[c].panel)) = Interpolated(cycles[c].panel)
            /\ cycles[c].panel[1] = "<h1>Preview Error</h1>"
            /\ cycles[c].mountNode = "absent"

\* C15 (normalizer guarantee): the normalizer returns the source unchanged,
\* and then the source declares React, or the canonical import followed by the
\* unchanged source; what it returns always declares React.
C15_NormalizerGuarantee ==
    Len(outputs) >= 1 =>
        /\ outputs[1] \in {source, CanonicalImport \o source}
        /\ outputs[1] = source => ReactBindings(source) >= 1
        /\ ReactBindings(outputs[1]) >= 1

\* C17 (duplicate avoidance): for a source that declares React at most once the
\* normalizer returns a module that declares React at most once, and a source
\* that declares React in any import form is returned unchanged.
C17_NoDuplicateBinding ==
    (Len(outputs) >= 1 /\ ReactBindings(source) <= 1) =>
        /\ ReactBindings(outputs[1]) <= 1
        /\ ReactBindings(source) = 1 => outputs[1] = source

\* no request completes in this step with a code for setGeneratedCode: every
\* request that leaves is a rejected one (a rejected generation sets ERROR, a
\* rejected refinement keeps the typed prompt)
NoSubmission ==
    \A r \in requests \ requests' :
        \/ r.kind = "generate" /\ status' = "ERROR"
        \/ r.kind = "refine" /\ refinementPrompt' # ""

\* C16 (no spontaneous re-run): a step that leaves generatedCode unchanged and
\* in which no response delivers a code (opening or closing the fullscreen
\* overlay, typing a prompt, a failed refinement) creates no document and so
\* starts no run of the pipeline.
C16_NoSpontaneousRerun ==
    [][(generatedCode' = generatedCode /\ NoSubmission) => Len(cycles') = Len(cycles)]_vars

\* C18 (missing default export): the diagnostic about the default export is
\* shown exactly for modules without a default export; a module whose default
\* export is a falsy value (null, 0, '') does not end Failed with it.
C18_MissingDefaultExact ==
    \A c \in CycleIds :
        cycles[c].trace # <<>> =>
            /\ (cycles[c].pc = "Failed" /\ cycles[c].panel = DiagnosticPanel(MissingDefaultMessage))
                  => Documents[cycles[c].doc].default = "absent"
            /\ (LoadsWithoutDefault(cycles[c].doc)
                /\ cycles[c].pc \notin {"Idle", "Loading"})
                  => cycles[c].panel = DiagnosticPanel(MissingDefaultMessage)

\* C19 (no engine timeout): a cycle that awaits the import of a module whose
\* evaluation never completes stays in Loading in every step; the only change
\* to it is the unload of its document, when its PreviewWindow takes a newer
\* document or is removed, and the pipeline never moves it on.
C19_NoTimeout ==
    [][\A c \in CycleIds :
          (cycles[c].pc = "Loading" /\ Documents[cycles[c].doc].evaluation = "never") =>
              \/ cycles'[c] = cycles[c]
              \/ /\ ~cycles[c].discarded
                 /\ cycles'[c] = [cycles[c] EXCEPT !.discarded = TRUE,
                                                   !.successor = cycles'[c].successor,
                                                   !.url = "revoked"]
                 /\ \A w \in WindowIds : windows'[w].document # c]_vars

\* C19 witness: a cycle of such a module was superseded while Loading and is
\* still Loading, after its successor has rendered
C19_Witness ==
    \E c \in CycleIds :
        /\ cycles[c].doc = "hang"
        /\ cycles[c].pc = "Loading"
        /\ cycles[c].discarded
        /\ cycles[c].successor \in CycleIds
        /\ cycles[cycles[c].successor].pc = "Rendered"

\* C20 (output and diagnostic exclusive): no document holds both a mounted root
\* and a diagnostic panel; a document with a panel holds nothing else, its
\* mount node is gone; a Rendered document holds no panel; and the panel in a
\* document is the one of that document's own code.
C20_OutputOrDiagnostic ==
    \A c \in CycleIds :
        cycles[c].trace # <<>> =>
            /\ ~(cycles[c].panel # <<>> /\ cycles[c].mountNode \in {"root", "rendered"})
            /\ cycles[c].panel # <<>> =>
                  /\ cycles[c].mountNode = "absent"
                  /\ cycles[c].panel = PanelFor(cycles[c].doc)
            /\ cycles[c].pc = "Rendered" =>
                  cycles[c].panel = <<>> /\ cycles[c].mountNode = "rendered"

\* C20 witness: a PreviewWindow shows the panel of its current, Failed cycle in
\* a body without mount node, after the continuation of the cycle it superseded
\* has run to its end
C20_Witness ==
    \E a \in CycleIds, b \in CycleIds :
        /\ cycles[a].pc = "Ended"
        /\ cycles[a].successor = b
        /\ Shown(b)
        /\ cycles[b].pc = "Failed"
        /\ cycles[b].panel # <<>>
        /\ cycles[b].mountNode = "absent"

\* C26 (normalizer idempotent): applying the normalizer to what it returned
\* returns it unchanged, so every later result equals the first one and holds
\* at most one canonical import more than the source.
C26_NormalizerIdempotent ==
    \A k \in 1..Len(outputs) :
        /\ outputs[k] = outputs[1]
        /\ outputs[k] \in {source, CanonicalImport \o source}

\* C26 witness: the normalizer prepended the import to the source and was
\* applied again to its own result
C26_Witness ==
    /\ Len(outputs) >= 2
    /\ outputs[1] = CanonicalImport \o source
    /\ outputs[2] = outputs[1]

\* C21 (reset is not undone): while status is IDLE (handleReset has run and no
\* file has been selected since) the resolution or rejection of a request that
\* is still in flight changes neither status nor generatedCode.
C21_ResetNotUndone ==
    [][(status = "IDLE" /\ requests' # requests /\ requests' \subseteq requests)
       => (status' = "IDLE" /\ generatedCode' = "empty")]_vars

\* C22 (latest submission wins): a response to a request that is not the most
\* recently issued one, arriving after the most recently issued request has
\* delivered its code, does not replace generatedCode.
C22_LatestSubmissionWins ==
    [][\A r \in requests \ requests' :
          (/\ r.id < issued
           /\ \A q \in requests : q.id # issued
           /\ status = "COMPLETED")
          => generatedCode' = generatedCode]_vars

\* C23 (one request in flight): at most one model request is in flight.
C23_OneRequestInFlight == Cardinality(requests) <= 1

LoadingStatus == {"ANALYZING", "GENERATING"}

\* when requests in flight settle, a loading status is left
LoadingLeft == (status \in LoadingStatus) ~> (status \notin LoadingStatus)

\* C25 (loading states are transient): when requests in flight settle, a
\* loading status is eventually left; a request that settles in ANALYZING
\* leaves COMPLETED or ERROR, one that settles in GENERATING leaves COMPLETED;
\* and a PreviewWindow is mounted only while status is COMPLETED or GENERATING.
C25_LoadingTransient ==
    /\ LoadingLeft
    /\ [][(requests' # requests /\ requests' \subseteq requests) =>
            /\ status = "ANALYZING" => status' \in {"COMPLETED", "ERROR"}
            /\ status = "GENERATING" => status' = "COMPLETED"]_vars
    /\ [](\A w \in WindowIds :
            windows[w].mounted => status \in {"COMPLETED", "GENERATING"})

====
